---------------------------- MODULE Spec2Model ----------------------------
(***************************************************************************)
(* The MMDS request translator of src/api_server/src/request/mmds.rs:      *)
(* parse_get_mmds, parse_put_mmds and parse_patch_mmds, called by any      *)
(* number of request-handling threads that share only the METRICS          *)
(* counters.                                                               *)
(*                                                                         *)
(* A body is a sequence of characters (one-character strings).  The JSON   *)
(* reader below covers the fragment the request bodies are drawn from:     *)
(* whitespace, strings without escapes, and objects of string-keyed        *)
(* members; every body of the model is either inside that fragment or is   *)
(* text no JSON reader accepts.                                            *)
(***************************************************************************)
EXTENDS Integers, Sequences, FiniteSets, TLC

(***************************************************************************)
(* Bounds of the model.                                                    *)
(***************************************************************************)
NumThreads == 2
MaxCalls == 3

Threads == 1..NumThreads

(***************************************************************************)
(* Characters and the texts the requests are built from.                   *)
(***************************************************************************)
Q == "\""

K_foo == <<"f","o","o">>
K_bar == <<"b","a","r">>
K_ipv4_address == <<"i","p","v","4","_","a","d","d","r","e","s","s">>
K_version == <<"v","e","r","s","i","o","n">>
K_V1 == <<"V","1">>
K_V2 == <<"V","2">>
K_invalid_config == <<"i","n","v","a","l","i","d","_","c","o","n","f","i","g">>
K_invalid_value == <<"i","n","v","a","l","i","d","_","v","a","l","u","e">>
K_invalid_body == <<"i","n","v","a","l","i","d","_","b","o","d","y">>
K_addr == <<"1","6","9",".","2","5","4",".","1","7","0",".","2">>
K_bad_addr == <<"2","5","6",".","1",".","1",".","1">>
K_empty == <<>>

\* A JSON string literal, and an object of one member, written compactly
\* and written with the line breaks and blanks of the test bodies.
Str(s) == <<Q>> \o s \o <<Q>>
Obj1(k, v) == <<"{">> \o Str(k) \o <<":">> \o Str(v) \o <<"}">>
ObjWs(k, v) ==
    <<"{", "\n", " ">> \o Str(k) \o <<":", " ">> \o Str(v) \o <<"\n", "}">>

B_foo == ObjWs(K_foo, K_bar)
B_foo_compact == Obj1(K_foo, K_bar)
B_str == Str(K_bar)
B_invalid == K_invalid_body
B_addr == ObjWs(K_ipv4_address, K_addr)
B_addr_empty == ObjWs(K_ipv4_address, K_empty)
B_addr_bad == Obj1(K_ipv4_address, K_bad_addr)
B_empty_obj == <<"{", "}">>
B_version_V1 == ObjWs(K_version, K_V1)
B_version_V2 == ObjWs(K_version, K_V2)
B_version_foo == ObjWs(K_version, K_foo)
B_version_empty == ObjWs(K_version, K_empty)
B_invalid_config == ObjWs(K_invalid_config, K_invalid_value)
B_truncated == <<"{">> \o Str(K_foo) \o <<":">>

Bodies ==
    { B_foo, B_foo_compact, B_str, B_invalid, B_addr, B_addr_empty,
      B_addr_bad, B_empty_obj, B_version_V1, B_version_V2, B_version_foo,
      B_version_empty, B_invalid_config, B_truncated }

\* The bodies the concurrent callers draw from.
ConcBodies == { B_foo, B_invalid, B_version_V1 }

\* Option<&&str>: <<>> is None, <<s>> is Some(s).
None == <<>>
Some(s) == <<s>>
Tokens == { None, Some("config"), Some("version"), Some("invalid_path") }

(***************************************************************************)
(* serde_json::from_slice on the fragment: a recursive-descent reader      *)
(* giving the syntax tree <<"str", chars>> or <<"obj", members>>, members  *)
(* a sequence of <<key, tree>> in the order written.                       *)
(***************************************************************************)
Fail == [ok |-> FALSE, v |-> <<>>, i |-> 0]
Done(v, i) == [ok |-> TRUE, v |-> v, i |-> i]

IsWs(c) == c \in {" ", "\n", "\t", "\r"}

RECURSIVE SkipWs(_, _)
SkipWs(b, i) ==
    IF i <= Len(b) /\ IsWs(b[i]) THEN SkipWs(b, i + 1) ELSE i

RECURSIVE ScanString(_, _, _)
ScanString(b, i, acc) ==
    IF i > Len(b) THEN Fail
    ELSE IF b[i] = Q THEN Done(acc, i + 1)
    ELSE ScanString(b, i + 1, Append(acc, b[i]))

ParseString(b, i) ==
    IF i <= Len(b) /\ b[i] = Q THEN ScanString(b, i + 1, <<>>) ELSE Fail

RECURSIVE ParseValue(_, _)
RECURSIVE ParseMembers(_, _, _)
ParseValue(b, i0) ==
    LET i == SkipWs(b, i0) IN
    IF i > Len(b) THEN Fail
    ELSE IF b[i] = Q THEN
        LET s == ParseString(b, i) IN
        IF s.ok THEN Done(<<"str", s.v>>, s.i) ELSE Fail
    ELSE IF b[i] = "{" THEN
        LET j == SkipWs(b, i + 1) IN
        IF j <= Len(b) /\ b[j] = "}" THEN Done(<<"obj", <<>>>>, j + 1)
        ELSE ParseMembers(b, j, <<>>)
    ELSE Fail

ParseMembers(b, i, acc) ==
    LET k == ParseString(b, i) IN
    IF ~k.ok THEN Fail ELSE
    LET c == SkipWs(b, k.i) IN
    IF c > Len(b) \/ b[c] # ":" THEN Fail ELSE
    LET v == ParseValue(b, c + 1) IN
    IF ~v.ok THEN Fail ELSE
    LET e == SkipWs(b, v.i)
        acc2 == Append(acc, <<k.v, v.v>>) IN
    IF e > Len(b) THEN Fail
    ELSE IF b[e] = "}" THEN Done(<<"obj", acc2>>, e + 1)
    ELSE IF b[e] = "," THEN ParseMembers(b, SkipWs(b, e + 1), acc2)
    ELSE Fail

\* The whole slice is one value; trailing characters are an error.
ParseDocument(b) ==
    LET r == ParseValue(b, 1) IN
    IF r.ok /\ SkipWs(b, r.i) > Len(b) THEN r ELSE Fail

(***************************************************************************)
(* serde_json::Value: <<"str", chars>> or <<"obj", map>>, the map a set of *)
(* <<key, value>> with one entry per key (a later duplicate replaces an    *)
(* earlier one).                                                           *)
(***************************************************************************)
RECURSIVE ToValue(_)
RECURSIVE ToMap(_, _)
ToValue(t) ==
    IF t[1] = "str" THEN t ELSE <<"obj", ToMap(t[2], {})>>

ToMap(ms, acc) ==
    IF ms = <<>> THEN acc
    ELSE LET k == Head(ms)[1] IN
         ToMap(Tail(ms),
               {p \in acc : p[1] # k} \cup {<<k, ToValue(Head(ms)[2])>>})

SerdeOk(v) == <<"Ok", v>>
SerdeErr == <<"Err">>

\* serde_json::from_slice::<serde_json::Value>
from_slice_Value(b) ==
    LET r == ParseDocument(b) IN
    IF r.ok THEN SerdeOk(ToValue(r.v)) ELSE SerdeErr

(***************************************************************************)
(* Ipv4Addr::from_str: four decimal octets separated by dots.              *)
(***************************************************************************)
Digits == <<"0","1","2","3","4","5","6","7","8","9">>
IsDigit(c) == \E k \in 1..10 : Digits[k] = c
DigitVal(c) == (CHOOSE k \in 1..10 : Digits[k] = c) - 1

RECURSIVE Split(_, _, _)
Split(s, cur, parts) ==
    IF s = <<>> THEN Append(parts, cur)
    ELSE IF Head(s) = "." THEN Split(Tail(s), <<>>, Append(parts, cur))
    ELSE Split(Tail(s), Append(cur, Head(s)), parts)

RECURSIVE Decimal(_, _)
Decimal(s, acc) ==
    IF s = <<>> THEN acc ELSE Decimal(Tail(s), 10 * acc + DigitVal(Head(s)))

OctetOk(p) ==
    /\ Len(p) \in 1..3
    /\ \A k \in 1..Len(p) : IsDigit(p[k])
    /\ Len(p) > 1 => p[1] # "0"
    /\ Decimal(p, 0) <= 255

Ipv4Addr_from_str(s) ==
    LET parts == Split(s, <<>>, <<>>) IN
    IF Len(parts) = 4 /\ \A k \in 1..4 : OctetOk(parts[k])
    THEN SerdeOk([k \in 1..4 |-> Decimal(parts[k], 0)])
    ELSE SerdeErr

(***************************************************************************)
(* The typed payloads.  MmdsConfig is { ipv4_address: Option<Ipv4Addr> }   *)
(* and MmdsVersionType is { version: MmdsVersion }, MmdsVersion one of V1, *)
(* V2; both reject a field they do not know and a field given twice.       *)
(***************************************************************************)
from_slice_MmdsConfig(b) ==
    LET r == ParseDocument(b) IN
    IF ~r.ok \/ r.v[1] # "obj" THEN SerdeErr
    ELSE LET ms == r.v[2] IN
         IF \E k \in 1..Len(ms) : ms[k][1] # K_ipv4_address THEN SerdeErr
         ELSE IF Len(ms) > 1 THEN SerdeErr
         ELSE IF Len(ms) = 0 THEN SerdeOk([ipv4_address |-> None])
         ELSE IF ms[1][2][1] # "str" THEN SerdeErr
         ELSE LET a == Ipv4Addr_from_str(ms[1][2][2]) IN
              IF a[1] = "Ok" THEN SerdeOk([ipv4_address |-> Some(a[2])])
              ELSE SerdeErr

from_slice_MmdsVersionType(b) ==
    LET r == ParseDocument(b) IN
    IF ~r.ok \/ r.v[1] # "obj" THEN SerdeErr
    ELSE LET ms == r.v[2] IN
         IF \E k \in 1..Len(ms) : ms[k][1] # K_version THEN SerdeErr
         ELSE IF Len(ms) # 1 THEN SerdeErr
         ELSE IF ms[1][2][1] # "str" THEN SerdeErr
         ELSE IF ms[1][2][2] = K_V1 THEN SerdeOk([version |-> "V1"])
         ELSE IF ms[1][2][2] = K_V2 THEN SerdeOk([version |-> "V2"])
         ELSE SerdeErr

(***************************************************************************)
(* State.  METRICS is the process-wide counter registry; pc, req and ret   *)
(* are each thread's position, the request it was handed and the Result    *)
(* it last returned; hist counts, outside the program, the calls made and  *)
(* the errors returned.                                                    *)
(***************************************************************************)
VARIABLES METRICS, pc, req, ret, hist

vars == <<METRICS, pc, req, ret, hist>>

NoReq == [method |-> "NONE", token |-> None, body |-> <<>>]
NoRet == <<"NoRet">>

\* IncMetric::inc on one counter of the registry.
IncMetric(m, f) == [m EXCEPT ![f] = @ + 1]

\* Result, parsed_request::Error and ParsedRequest.
Ok(v) == <<"Ok", v>>
Err(e) == <<"Err", e>>
Error_SerdeJson == <<"SerdeJson">>
Error_Generic(status, msg) == <<"Generic", status, msg>>
ParsedRequest_new(action) == [action |-> action, mode |-> "queued"]
ParsedRequest_new_sync(vmm_action) ==
    [action |-> vmm_action, mode |-> "immediate"]

\* format!("Unrecognized {} request path `{}`.", ..): the text before the
\* token, the token (which the message encloses in backquotes), the full stop.
Unrecognized(method, token) ==
    <<"Unrecognized " \o method \o " request path ", token, ".">>

\* What a function leaves behind: the registry and the Result it returns.
Out(m, r) == [metrics |-> m, result |-> r]

(***************************************************************************)
(* parse_get_mmds                                                          *)
(***************************************************************************)
\* Variant: the "version" branch counts the request as the bare path does.
parse_get_mmds_counts_version(m, path_second_token) ==
    IF path_second_token = None THEN
        Out(IncMetric(m, "get_mmds_count"),
            Ok(ParsedRequest_new(<<"GetMMDS">>)))
    ELSE IF path_second_token = Some("version") THEN
        Out(IncMetric(m, "get_mmds_count"),
            Ok(ParsedRequest_new(<<"GetMMDSVersion">>)))
    ELSE
        Out(m, Err(Error_Generic("BadRequest",
                                 Unrecognized("GET", path_second_token[1]))))

\* Variant: a token that is not "version" is served as the bare path.
parse_get_mmds_lenient(m, path_second_token) ==
    IF path_second_token = Some("version") THEN
        Out(m, Ok(ParsedRequest_new(<<"GetMMDSVersion">>)))
    ELSE
        Out(IncMetric(m, "get_mmds_count"),
            Ok(ParsedRequest_new(<<"GetMMDS">>)))

parse_get_mmds(m, path_second_token) ==
    IF path_second_token = None THEN
        Out(IncMetric(m, "get_mmds_count"),
            Ok(ParsedRequest_new(<<"GetMMDS">>)))
    ELSE IF path_second_token = Some("version") THEN
        Out(m, Ok(ParsedRequest_new(<<"GetMMDSVersion">>)))
    ELSE
        Out(m, Err(Error_Generic("BadRequest",
                                 Unrecognized("GET", path_second_token[1]))))

(***************************************************************************)
(* parse_put_mmds: the count on entry, then the match on the token.        *)
(***************************************************************************)
\* Variant: the entry does not count the request.
parse_put_mmds_entry_uncounted(m) == m

parse_put_mmds_entry(m) == IncMetric(m, "put_mmds_count")

\* Variant: a call that follows a failed PUT is refused.
parse_put_mmds_none_poisoned(m, body) ==
    LET d == from_slice_Value(body) IN
    IF d[1] = "Err" \/ m.put_mmds_fails > 0 THEN
        Out(IncMetric(m, "put_mmds_fails"), Err(Error_SerdeJson))
    ELSE Out(m, Ok(ParsedRequest_new(<<"PutMMDS", d[2]>>)))

parse_put_mmds_none(m, body) ==
    LET d == from_slice_Value(body) IN
    IF d[1] = "Err" THEN
        Out(IncMetric(m, "put_mmds_fails"), Err(Error_SerdeJson))
    ELSE Out(m, Ok(ParsedRequest_new(<<"PutMMDS", d[2]>>)))

\* Variant: the configuration is wrapped by ParsedRequest::new.
parse_put_mmds_config_queued(m, body) ==
    LET d == from_slice_MmdsConfig(body) IN
    IF d[1] = "Err" THEN
        Out(IncMetric(m, "put_mmds_fails"), Err(Error_SerdeJson))
    ELSE Out(m, Ok(ParsedRequest_new(<<"SetMmdsConfiguration", d[2]>>)))

\* Variant: the body is decoded as any JSON value and the configuration
\* is the default one.
parse_put_mmds_config_any_json(m, body) ==
    LET d == from_slice_Value(body) IN
    IF d[1] = "Err" THEN
        Out(IncMetric(m, "put_mmds_fails"), Err(Error_SerdeJson))
    ELSE Out(m, Ok(ParsedRequest_new_sync(
                    <<"SetMmdsConfiguration", [ipv4_address |-> None]>>)))

\* Variant: a body that does not decode gives the default configuration.
parse_put_mmds_config_default_on_error(m, body) ==
    LET d == from_slice_MmdsConfig(body) IN
    IF d[1] = "Err" THEN
        Out(m, Ok(ParsedRequest_new_sync(
                    <<"SetMmdsConfiguration", [ipv4_address |-> None]>>)))
    ELSE Out(m, Ok(ParsedRequest_new_sync(<<"SetMmdsConfiguration", d[2]>>)))

parse_put_mmds_config(m, body) ==
    LET d == from_slice_MmdsConfig(body) IN
    IF d[1] = "Err" THEN
        Out(IncMetric(m, "put_mmds_fails"), Err(Error_SerdeJson))
    ELSE Out(m, Ok(ParsedRequest_new_sync(<<"SetMmdsConfiguration", d[2]>>)))

\* Variant: the decoded tag is dropped and V1 is set.
parse_put_mmds_version_fixed(m, body) ==
    LET d == from_slice_MmdsVersionType(body) IN
    IF d[1] = "Err" THEN
        Out(IncMetric(m, "put_mmds_fails"), Err(Error_SerdeJson))
    ELSE Out(m, Ok(ParsedRequest_new(<<"SetMMDSVersion", "V1">>)))

parse_put_mmds_version(m, body) ==
    LET d == from_slice_MmdsVersionType(body) IN
    IF d[1] = "Err" THEN
        Out(IncMetric(m, "put_mmds_fails"), Err(Error_SerdeJson))
    ELSE Out(m, Ok(ParsedRequest_new(<<"SetMMDSVersion", d[2].version>>)))

\* Variant: the unrecognized path is not counted as a failure.
parse_put_mmds_unrecognized_uncounted(m, unrecognized) ==
    Out(m, Err(Error_Generic("BadRequest", Unrecognized("PUT", unrecognized))))

parse_put_mmds_unrecognized(m, unrecognized) ==
    Out(IncMetric(m, "put_mmds_fails"),
        Err(Error_Generic("BadRequest", Unrecognized("PUT", unrecognized))))

parse_put_mmds_match(m, body, path_second_token) ==
    IF path_second_token = None THEN parse_put_mmds_none(m, body)
    ELSE IF path_second_token = Some("config") THEN
        parse_put_mmds_config(m, body)
    ELSE IF path_second_token = Some("version") THEN
        parse_put_mmds_version(m, body)
    ELSE parse_put_mmds_unrecognized(m, path_second_token[1])

(***************************************************************************)
(* parse_patch_mmds: the count on entry, then the decoding of the body.    *)
(***************************************************************************)
parse_patch_mmds_entry(m) == IncMetric(m, "patch_mmds_count")

\* Variant: the document is wrapped as a replacement, not as a patch.
parse_patch_mmds_decode_as_put(m, body) ==
    LET d == from_slice_Value(body) IN
    IF d[1] = "Err" THEN
        Out(IncMetric(m, "patch_mmds_fails"), Err(Error_SerdeJson))
    ELSE Out(m, Ok(ParsedRequest_new(<<"PutMMDS", d[2]>>)))

parse_patch_mmds_decode(m, body) ==
    LET d == from_slice_Value(body) IN
    IF d[1] = "Err" THEN
        Out(IncMetric(m, "patch_mmds_fails"), Err(Error_SerdeJson))
    ELSE Out(m, Ok(ParsedRequest_new(<<"PatchMMDS", d[2]>>)))

(***************************************************************************)
(* The threads.  A step holds at most one access to METRICS, so the steps  *)
(* of concurrent calls interleave as the atomic counters allow.            *)
(***************************************************************************)
Init ==
    /\ METRICS = [get_mmds_count |-> 0, put_mmds_count |-> 0,
                  put_mmds_fails |-> 0, patch_mmds_count |-> 0,
                  patch_mmds_fails |-> 0]
    /\ pc = [t \in Threads |-> "idle"]
    /\ req = [t \in Threads |-> NoReq]
    /\ ret = [t \in Threads |-> NoRet]
    /\ hist = [calls |-> 0, get_bare |-> 0, put |-> 0, patch |-> 0,
               put_err |-> 0, patch_err |-> 0]

Bump(h, f, cond) == IF cond THEN [h EXCEPT ![f] = @ + 1] ELSE h

\* A thread is handed a GET and runs parse_get_mmds.
GetCall(t, token) ==
    /\ pc[t] = "idle"
    /\ hist.calls < MaxCalls
    /\ LET o == parse_get_mmds(METRICS, token) IN
        /\ METRICS' = o.metrics
        /\ ret' = [ret EXCEPT ![t] = o.result]
    /\ req' = [req EXCEPT ![t] =
                 [method |-> "GET", token |-> token, body |-> <<>>]]
    /\ hist' = Bump(Bump(hist, "calls", TRUE), "get_bare", token = None)
    /\ UNCHANGED pc

\* A thread is handed a PUT and enters parse_put_mmds.
PutEnter(t, token, body) ==
    /\ pc[t] = "idle"
    /\ hist.calls < MaxCalls
    /\ METRICS' = parse_put_mmds_entry(METRICS)
    /\ pc' = [pc EXCEPT ![t] = "put_match"]
    /\ req' = [req EXCEPT ![t] =
                 [method |-> "PUT", token |-> token, body |-> body]]
    /\ ret' = [ret EXCEPT ![t] = NoRet]
    /\ hist' = Bump(Bump(hist, "calls", TRUE), "put", TRUE)

\* The match of parse_put_mmds, to its return.
PutMatch(t) ==
    /\ pc[t] = "put_match"
    /\ LET o == parse_put_mmds_match(METRICS, req[t].body, req[t].token) IN
        /\ METRICS' = o.metrics
        /\ ret' = [ret EXCEPT ![t] = o.result]
        /\ hist' = Bump(hist, "put_err", o.result[1] = "Err")
    /\ pc' = [pc EXCEPT ![t] = "idle"]
    /\ UNCHANGED req

\* A thread is handed a PATCH and enters parse_patch_mmds, which is not
\* given the path token of the request.
PatchEnter(t, token, body) ==
    /\ pc[t] = "idle"
    /\ hist.calls < MaxCalls
    /\ METRICS' = parse_patch_mmds_entry(METRICS)
    /\ pc' = [pc EXCEPT ![t] = "patch_decode"]
    /\ req' = [req EXCEPT ![t] =
                 [method |-> "PATCH", token |-> token, body |-> body]]
    /\ ret' = [ret EXCEPT ![t] = NoRet]
    /\ hist' = Bump(Bump(hist, "calls", TRUE), "patch", TRUE)

\* The decoding of parse_patch_mmds, to its return.
PatchDecode(t) ==
    /\ pc[t] = "patch_decode"
    /\ LET o == parse_patch_mmds_decode(METRICS, req[t].body) IN
        /\ METRICS' = o.metrics
        /\ ret' = [ret EXCEPT ![t] = o.result]
        /\ hist' = Bump(hist, "patch_err", o.result[1] = "Err")
    /\ pc' = [pc EXCEPT ![t] = "idle"]
    /\ UNCHANGED req

\* Concurrent callers.
Next ==
    \E t \in Threads :
        \/ \E token \in Tokens : GetCall(t, token)
        \/ \E token \in Tokens, body \in ConcBodies : PutEnter(t, token, body)
        \/ PutMatch(t)
        \/ \E body \in ConcBodies : PatchEnter(t, None, body)
        \/ PatchDecode(t)

Spec == Init /\ [][Next]_vars

\* One caller, every body and every path token.
NextSeq ==
    \/ \E token \in Tokens : GetCall(1, token)
    \/ \E token \in Tokens, body \in Bodies : PutEnter(1, token, body)
    \/ PutMatch(1)
    \/ \E token \in Tokens, body \in Bodies : PatchEnter(1, token, body)
    \/ PatchDecode(1)

SpecSeq == Init /\ [][NextSeq]_vars

(***************************************************************************)
(* Predicates on a state and on a Result.                                  *)
(***************************************************************************)
\* Thread t has returned from a call; req[t] and ret[t] are its input and
\* its Result.
Returned(t) == pc[t] = "idle" /\ ret[t] # NoRet

IsOk(r) == r[1] = "Ok"
IsErr(r) == r[1] = "Err"
IsBodyDecodeFailed(r) == r = <<"Err", <<"SerdeJson">>>>
IsMalformedNaming(r, token) ==
    /\ IsErr(r)
    /\ r[2][1] = "Generic"
    /\ r[2][2] = "BadRequest"
    /\ r[2][3][2] = token
Queued(action) == <<"Ok", [action |-> action, mode |-> "queued"]>>
Immediate(action) == <<"Ok", [action |-> action, mode |-> "immediate"]>>

\* The bodies that are no JSON text at all.
NotJson == { B_invalid, B_truncated }

\* The compact JSON text of a document.
RECURSIVE Encode(_)
RECURSIVE EncodeMembers(_)
Encode(d) ==
    IF d[1] = "str" THEN Str(d[2])
    ELSE <<"{">> \o EncodeMembers(d[2]) \o <<"}">>

EncodeMembers(S) ==
    IF S = {} THEN <<>>
    ELSE LET p == CHOOSE q \in S : TRUE
             rest == S \ {p} IN
         Str(p[1]) \o <<":">> \o Encode(p[2])
            \o (IF rest = {} THEN <<>> ELSE <<",">> \o EncodeMembers(rest))

Docs ==
    { <<"str", K_bar>>,
      <<"obj", {}>>,
      <<"obj", { <<K_foo, <<"str", K_bar>>>> }>>,
      <<"obj", { <<K_ipv4_address, <<"str", K_bad_addr>>>> }>> }

(***************************************************************************)
(* C1.  A successful translation carries the immediate mode if and only if *)
(* it comes from a PUT with second token "config", and then its action is  *)
(* the configuration replacement; every other successful GET, PUT and      *)
(* PATCH result carries the queued mode.                                   *)
(***************************************************************************)
C1_ImmediateIffPutConfig ==
    \A t \in Threads :
        Returned(t) /\ IsOk(ret[t]) =>
            /\ ret[t][2].mode \in {"queued", "immediate"}
            /\ ret[t][2].mode = "immediate"
                 <=> (req[t].method = "PUT" /\ req[t].token = Some("config"))
            /\ ret[t][2].mode = "immediate"
                 => ret[t][2].action[1] = "SetMmdsConfiguration"

C1_Witness ==
    \E t \in Threads :
        /\ Returned(t)
        /\ req[t].method = "PUT"
        /\ req[t].token = Some("config")
        /\ req[t].body = B_addr
        /\ IsOk(ret[t])
        /\ ret[t][2].mode = "immediate"

(***************************************************************************)
(* C2.  As stated: for GET, PUT and PATCH, a request whose second path     *)
(* token is not one the method recognizes gets the Malformed error with    *)
(* BadRequest status and a message naming the token.                       *)
(***************************************************************************)
Recognized(method) ==
    IF method = "GET" THEN {None, Some("version")}
    ELSE IF method = "PUT" THEN {None, Some("config"), Some("version")}
    ELSE {None}

C2_AllMethodsMalformed ==
    \A t \in Threads :
        Returned(t) /\ req[t].token \notin Recognized(req[t].method) =>
            IsMalformedNaming(ret[t], req[t].token[1])

(***************************************************************************)
(* C2, amended.  For GET and PUT a second token the method does not        *)
(* recognize gets Malformed(BadRequest) naming the token, and no other     *)
(* request does; parse_patch_mmds is not given the token and never         *)
(* returns Malformed, whatever the path of the request.                    *)
(***************************************************************************)
C2_GetPutMalformed ==
    \A t \in Threads :
        Returned(t) =>
            /\ req[t].method \in {"GET", "PUT"}
                 /\ req[t].token \notin Recognized(req[t].method)
               => IsMalformedNaming(ret[t], req[t].token[1])
            /\ req[t].method \in {"GET", "PUT"}
                 /\ req[t].token \in Recognized(req[t].method)
               => (IsOk(ret[t]) \/ IsBodyDecodeFailed(ret[t]))
            /\ req[t].method = "PATCH"
               => (IsOk(ret[t]) \/ IsBodyDecodeFailed(ret[t]))

C2_Witness ==
    \E t \in Threads :
        /\ Returned(t)
        /\ req[t].method = "PUT"
        /\ req[t].token = Some("invalid_path")
        /\ req[t].body = B_version_empty
        /\ IsMalformedNaming(ret[t], "invalid_path")

(***************************************************************************)
(* C3.  The "get observed" counter equals the number of GET calls made     *)
(* with no second token, whatever PUT, PATCH and other GET calls were made *)
(* and however they interleave; a bare GET returns GetMMDS and a GET of    *)
(* "version" returns GetMMDSVersion.                                       *)
(***************************************************************************)
C3_GetCountIsBareGets ==
    /\ METRICS.get_mmds_count = hist.get_bare
    /\ \A t \in Threads :
        Returned(t) /\ req[t].method = "GET" =>
            /\ req[t].token = None => ret[t] = Queued(<<"GetMMDS">>)
            /\ req[t].token = Some("version")
                 => ret[t] = Queued(<<"GetMMDSVersion">>)

C3_Witness ==
    \E t1, t2 \in Threads :
        /\ Returned(t1) /\ req[t1].method = "GET"
        /\ req[t1].token = Some("version")
        /\ Returned(t2) /\ req[t2].method = "GET"
        /\ req[t2].token = Some("invalid_path")
        /\ METRICS.get_mmds_count = 1
        /\ hist.calls = 3

(***************************************************************************)
(* C4.  In every state, also while a call is between its entry and its     *)
(* match on the token or its decoding of the body, the "put observed"      *)
(* counter equals the number of parse_put_mmds calls entered and the       *)
(* "patch observed" counter the number of parse_patch_mmds calls entered.  *)
(***************************************************************************)
C4_ObservedCountedOnEntry ==
    /\ METRICS.put_mmds_count = hist.put
    /\ METRICS.patch_mmds_count = hist.patch

C4_Witness ==
    \E t1, t2 \in Threads :
        /\ pc[t1] = "put_match"
        /\ req[t1].token = Some("invalid_path")
        /\ pc[t2] = "patch_decode"
        /\ req[t2].body = B_invalid
        /\ METRICS.put_mmds_count = 2
        /\ METRICS.patch_mmds_count = 1
        /\ METRICS.put_mmds_fails = 0

(***************************************************************************)
(* C5.  The "put failed" counter equals the number of PUT calls that       *)
(* returned an Error and the "patch failed" counter the number of PATCH    *)
(* calls that did; neither exceeds its method's observed counter; a PUT    *)
(* fails with Malformed on an unrecognized token and with the decode       *)
(* error otherwise.                                                        *)
(***************************************************************************)
C5_FailedCountIsErrors ==
    /\ METRICS.put_mmds_fails = hist.put_err
    /\ METRICS.patch_mmds_fails = hist.patch_err
    /\ METRICS.put_mmds_fails <= METRICS.put_mmds_count
    /\ METRICS.patch_mmds_fails <= METRICS.patch_mmds_count
    /\ \A t \in Threads :
        Returned(t) /\ req[t].method = "PUT" /\ IsErr(ret[t]) =>
            IF req[t].token \in Recognized("PUT")
            THEN IsBodyDecodeFailed(ret[t])
            ELSE IsMalformedNaming(ret[t], req[t].token[1])

C5_Witness ==
    \E t1, t2 \in Threads :
        /\ Returned(t1) /\ req[t1].method = "PUT"
        /\ IsMalformedNaming(ret[t1], "invalid_path")
        /\ Returned(t2) /\ req[t2].method = "PUT"
        /\ IsBodyDecodeFailed(ret[t2])
        /\ METRICS.put_mmds_fails = 2
        /\ METRICS.put_mmds_count = 3

(***************************************************************************)
(* C6.  PUT with second token "version" returns queued SetMMDSVersion(V1)  *)
(* for the body {"version":"V1"}, SetMMDSVersion(V2) for {"version":"V2"}, *)
(* and the decode error for every other body: an unknown or empty tag, no  *)
(* version field, a JSON text that is no object, text that is not JSON.    *)
(***************************************************************************)
C6_PutVersion ==
    \A t \in Threads :
        Returned(t) /\ req[t].method = "PUT" /\ req[t].token = Some("version")
        =>  /\ req[t].body = B_version_V1
               => ret[t] = Queued(<<"SetMMDSVersion", "V1">>)
            /\ req[t].body = B_version_V2
               => ret[t] = Queued(<<"SetMMDSVersion", "V2">>)
            /\ req[t].body \notin {B_version_V1, B_version_V2}
               => IsBodyDecodeFailed(ret[t])

C6_Witness ==
    \E t \in Threads :
        /\ Returned(t)
        /\ req[t].method = "PUT"
        /\ req[t].token = Some("version")
        /\ req[t].body = B_version_V2
        /\ ret[t] = Queued(<<"SetMMDSVersion", "V2">>)

(***************************************************************************)
(* C7.  PUT with second token "config" succeeds with the configuration     *)
(* replacement for an object whose ipv4_address is 169.254.170.2 and for   *)
(* the empty object, and fails with the decode error when ipv4_address is  *)
(* the empty string, when the object holds only an unknown field and when  *)
(* the body is not JSON.                                                   *)
(***************************************************************************)
C7_PutConfig ==
    \A t \in Threads :
        Returned(t) /\ req[t].method = "PUT" /\ req[t].token = Some("config")
        =>  /\ req[t].body = B_addr
               => ret[t] = Immediate(<<"SetMmdsConfiguration",
                              [ipv4_address |-> Some(<<169, 254, 170, 2>>)]>>)
            /\ req[t].body = B_empty_obj
               => ret[t] = Immediate(<<"SetMmdsConfiguration",
                                       [ipv4_address |-> None]>>)
            /\ req[t].body \in {B_addr_empty, B_invalid_config} \cup NotJson
               => IsBodyDecodeFailed(ret[t])

C7_Witness ==
    \E t \in Threads :
        /\ Returned(t)
        /\ req[t].method = "PUT"
        /\ req[t].token = Some("config")
        /\ req[t].body = B_empty_obj
        /\ IsOk(ret[t])

(***************************************************************************)
(* C8.  As stated: on the "config" path an address that is absent or       *)
(* empty is a valid reset request and not an error; only an address that   *)
(* is present and non-empty has to be a valid IPv4 address.                *)
(***************************************************************************)
C8_EmptyOrAbsentIsReset ==
    \A t \in Threads :
        Returned(t) /\ req[t].method = "PUT" /\ req[t].token = Some("config")
        =>  /\ req[t].body \in {B_empty_obj, B_addr_empty, B_addr}
               => IsOk(ret[t])
            /\ req[t].body = B_addr_bad => IsBodyDecodeFailed(ret[t])

(***************************************************************************)
(* C8, amended.  On the "config" path an address that is present, the      *)
(* empty string included, has to be a valid IPv4 address, or the call      *)
(* fails with the decode error; only an absent address (the empty object)  *)
(* is the reset request, which succeeds with no address.                   *)
(***************************************************************************)
C8_PresentAddressMustBeValid ==
    \A t \in Threads :
        Returned(t) /\ req[t].method = "PUT" /\ req[t].token = Some("config")
        =>  /\ req[t].body \in {B_addr_empty, B_addr_bad}
               => IsBodyDecodeFailed(ret[t])
            /\ req[t].body = B_empty_obj
               => /\ IsOk(ret[t])
                  /\ ret[t][2].action[2].ipv4_address = None
            /\ req[t].body = B_addr
               => /\ IsOk(ret[t])
                  /\ ret[t][2].action[2].ipv4_address # None

C8_Witness ==
    \E t \in Threads :
        /\ Returned(t)
        /\ req[t].method = "PUT"
        /\ req[t].token = Some("config")
        /\ req[t].body = B_addr_empty
        /\ IsBodyDecodeFailed(ret[t])

(***************************************************************************)
(* C9.  A PUT with no second token whose body is the JSON text of a        *)
(* document d returns queued PutMMDS(d), and a PATCH of that body returns  *)
(* queued PatchMMDS(d), the same d with or without blanks around its       *)
(* parts; a body that is not JSON returns the decode error on both paths.  *)
(***************************************************************************)
C9_DocumentCarriedUnchanged ==
    \A t \in Threads :
        Returned(t) =>
            LET put == req[t].method = "PUT" /\ req[t].token = None
                patch == req[t].method = "PATCH"
                foo == <<"obj", { <<K_foo, <<"str", K_bar>>>> }>> IN
            /\ \A d \in Docs :
                 req[t].body = Encode(d) =>
                    /\ put => ret[t] = Queued(<<"PutMMDS", d>>)
                    /\ patch => ret[t] = Queued(<<"PatchMMDS", d>>)
            /\ req[t].body = B_foo =>
                    /\ put => ret[t] = Queued(<<"PutMMDS", foo>>)
                    /\ patch => ret[t] = Queued(<<"PatchMMDS", foo>>)
            /\ req[t].body \in NotJson /\ (put \/ patch)
                 => IsBodyDecodeFailed(ret[t])
            /\ req[t].body \notin NotJson /\ (put \/ patch) => IsOk(ret[t])

C9_Witness ==
    \E t \in Threads :
        /\ Returned(t)
        /\ req[t].method = "PATCH"
        /\ req[t].body = Encode(<<"obj", { <<K_foo, <<"str", K_bar>>>> }>>)
        /\ ret[t] =
             Queued(<<"PatchMMDS", <<"obj", { <<K_foo, <<"str", K_bar>>>> }>>>>)

(***************************************************************************)
(* C10.  Two calls with the same method, second token and body return the  *)
(* same Result, whatever the counters held when each ran, whatever calls   *)
(* (failed ones included) came before, and however the steps of            *)
(* concurrent calls interleaved.                                           *)
(***************************************************************************)
C10_ResultDependsOnInputOnly ==
    \A t1, t2 \in Threads :
        Returned(t1) /\ Returned(t2) /\ req[t1] = req[t2] => ret[t1] = ret[t2]

C10_Witness ==
    \E t1, t2 \in Threads :
        /\ t1 # t2
        /\ Returned(t1) /\ Returned(t2)
        /\ req[t1] = req[t2]
        /\ req[t1].method = "PUT"
        /\ IsOk(ret[t1])
        /\ ret[t1] = ret[t2]
        /\ METRICS.put_mmds_fails = 1
        /\ METRICS.put_mmds_count = 3

=============================================================================
